---- MODULE Spec2Model ----
(***************************************************************************)
(* Model of the reviewer-assignment service (avito-intro).                 *)
(*                                                                         *)
(* The repository (internal/repository/memory.go) is three Go maps behind  *)
(* one sync.RWMutex; every repository method holds the lock for its whole  *)
(* body, so each repository call is one atomic step.  The use cases        *)
(* (internal/usecase) are sequences of such calls with local computation   *)
(* between them; each request runs on its own goroutine, so the steps of   *)
(* different requests interleave.                                          *)
(*                                                                         *)
(* A stored *entity.PullRequest is never modified after it is stored, but  *)
(* the struct copy made by getPR (`return *pr`) copies the slice header of *)
(* AssignedReviewers only: every copy of a pull request shares the backing *)
(* array that selectRandomReviewers allocated.  The arrays therefore live  *)
(* in a heap of their own (variable heap) and a pull-request record holds  *)
(* a reference into it.  Accesses to the shared array made outside the     *)
(* lock (checkReviewerAssigned, filterReplacementCandidates,               *)
(* replaceReviewer) are steps of their own; one scan or one element write  *)
(* is taken as one access.                                                 *)
(***************************************************************************)
EXTENDS Integers, Sequences, FiniteSets, TLC

\* ------------------------------------------------------------------ bounds

\* Requests accepted in one run (the first step of a use case accepts one).
MaxOps == 3

\* Goroutines serving requests, in the order in which a free one is taken.
Pool == <<"w1", "w2">>
Procs == {Pool[i] : i \in 1..Len(Pool)}

\* uuid.UUID values of users and pull requests, and team names.
UserIDs == {"u1", "u2", "u3", "u4"}
PRIDs == {"p1"}
TeamNames == {"A", "B"}

\* Arguments of the requests that are tried.
AuthorInputs == {"u1", "u4"}
ReviewerInputs == UserIDs
ActivityInputs == {"u2", "u4"}

\* ------------------------------------------------------------ entity types

StatusOpen == "OPEN"
StatusMerged == "MERGED"

ErrNil == "nil"
ErrNotFound == "not found"
ErrAlreadyExists == "already exists"
ErrPRMerged == "PR is already merged"
ErrNotAssigned == "reviewer is not assigned to this PR"
ErrNoCandidate == "no active replacement candidate in team"

\* uuid.Nil
UUIDNil == "00000000"

\* entity.User
User(id, name, team, active) ==
    [UserID |-> id, Username |-> name, TeamName |-> team, IsActive |-> active]

\* entity.User{}
ZeroUser == User(UUIDNil, "", "", FALSE)

\* entity.PullRequest; AssignedReviewers is a reference into heap, MergedAt a
\* pointer: <<>> is nil, <<t>> points to t.
PullRequest(id, name, author, status, ref, created, merged) ==
    [PullRequestID |-> id, PullRequestName |-> name, AuthorID |-> author,
     Status |-> status, AssignedReviewers |-> ref, CreatedAt |-> created,
     MergedAt |-> merged]

\* entity.PullRequest{}: a nil slice (reference 0) and a nil MergedAt.
ZeroPR == PullRequest(UUIDNil, "", UUIDNil, "", 0, 0, <<>>)

\* ------------------------------------------------------------------- state

\* entity.Team: the name and the list of member identifiers.
Team(name, members) == [TeamName |-> name, Members |-> members]

ZeroTeam == Team("", <<>>)

VARIABLES
    users,          \* MemoryRepository.users: a map, DOMAIN users are its keys
    teams,          \* MemoryRepository.teams: team name -> member id list
    pullRequests,   \* MemoryRepository.pullRequests
    heap,           \* backing arrays of the AssignedReviewers slices
    clock,          \* last value returned by time.Now()
    started,        \* requests accepted so far
    pc,             \* position of each goroutine in its use case
    op,             \* the request each goroutine serves
    loc,            \* local variables of the use case
    ret,            \* values returned by the use case
    pre             \* the repository as it was when the latest request began

repo == <<users, teams, pullRequests, heap>>
vars == <<users, teams, pullRequests, heap, clock, started, pc, op, loc, ret, pre>>

\* A request: the use case called and its arguments.
Op(name, prID, userID, isActive, teamName, members) ==
    [name |-> name, prID |-> prID, userID |-> userID,
     isActive |-> isActive, teamName |-> teamName, members |-> members]

NoOp == Op("none", UUIDNil, UUIDNil, FALSE, "", <<>>)
NoLoc == [pr |-> ZeroPR, user |-> ZeroUser, teamMembers |-> {},
          newReviewer |-> ZeroUser, seen |-> <<>>, exists |-> FALSE, i |-> 0,
          team |-> ZeroTeam]
NoRet == [err |-> ErrNil, pr |-> ZeroPR, id |-> UUIDNil, user |-> ZeroUser,
          team |-> ZeroTeam, users |-> <<>>, prs |-> <<>>]
\* taken tells a snapshot of the empty repository from no snapshot.
NoPre == [users |-> <<>>, teams |-> <<>>, pullRequests |-> <<>>, heap |-> <<>>,
          taken |-> FALSE]

Snapshot == [users |-> users, teams |-> teams, pullRequests |-> pullRequests,
             heap |-> heap, taken |-> TRUE]

\* TeamMemberDTO
TeamMemberDTO(id, name, active) == [UserID |-> id, Username |-> name, IsActive |-> active]

\* TeamMemberDTOToEntity
TeamMemberDTOToEntity(dto, teamName) ==
    User(dto.UserID, dto.Username, teamName, dto.IsActive)

\* The request POST /team/add {team_name: "A", members: u1..u4, all active}.
SeedTeam == "A"
SeedMembers ==
    << TeamMemberDTO("u1", "n", TRUE), TeamMemberDTO("u2", "n", TRUE),
       TeamMemberDTO("u3", "n", TRUE), TeamMemberDTO("u4", "n", TRUE) >>

\* The repositories a run starts from: the one NewMemoryRepository returns
\* (three empty maps), and the one that results from serving the seed request
\* on it (AddTeam creates the four users, then the team record).
InitialRepos ==
    { [users |-> <<>>, teams |-> <<>>],
      [users |-> [id \in {SeedMembers[i].UserID : i \in 1..Len(SeedMembers)} |->
                     TeamMemberDTOToEntity(
                         SeedMembers[CHOOSE i \in 1..Len(SeedMembers) :
                                         SeedMembers[i].UserID = id], SeedTeam)],
       teams |-> [t \in {SeedTeam} |->
                     [i \in 1..Len(SeedMembers) |-> SeedMembers[i].UserID]]] }

Init ==
    /\ \E r \in InitialRepos :
          /\ users = r.users
          /\ teams = r.teams
    /\ pullRequests = <<>>
    /\ heap = <<>>
    /\ clock = 0
    /\ started = 0
    /\ pc = [p \in Procs |-> "idle"]
    /\ op = [p \in Procs |-> NoOp]
    /\ loc = [p \in Procs |-> NoLoc]
    /\ ret = [p \in Procs |-> NoRet]
    /\ pre = NoPre

\* ------------------------------------------------------------- helpers

\* slices.Contains
Contains(s, x) == \E i \in 1..Len(s) : s[i] = x

\* All orders in which the elements of S can be listed (Go map iteration order).
Orders(S) ==
    {s \in [1..Cardinality(S) -> S] : \A i, j \in 1..Cardinality(S) : s[i] = s[j] => i = j}

\* The contents of a slice (none for the nil slice).
Deref(ref) == IF ref \in DOMAIN heap THEN heap[ref] ELSE <<>>

\* make([]uuid.UUID, count): the address of a fresh array, the first free one.
NewRef == CHOOSE r \in 1..(Cardinality(DOMAIN heap) + 1) :
              /\ r \notin DOMAIN heap
              /\ \A q \in 1..(r - 1) : q \in DOMAIN heap

\* The heap once the array at ref is garbage (nothing refers to it).
Free(ref) == [r \in DOMAIN heap \ {ref} |-> heap[r]]

\* ------------------------------------------------------- repository reads

\* MemoryRepository.PRExists
PRExists(prID) == prID \in DOMAIN pullRequests

\* MemoryRepository.UserExists
UserExists(userID) == userID \in DOMAIN users

\* Mutant of TeamExists: no team is ever found.
TeamExists_never(teamName) == FALSE

\* MemoryRepository.TeamExists
TeamExists(teamName) == teamName \in DOMAIN teams

\* MemoryRepository.GetTeam: the stored team (found by the caller's TeamExists).
GetTeam(teamName) == Team(teamName, teams[teamName])

\* Mutant of GetUsersByIDs: the users that are not active are left out too.
GetUsersByIDs_activeOnly(userIDs) ==
    LET found == SelectSeq(userIDs, LAMBDA id : id \in DOMAIN users /\ users[id].IsActive)
    IN  [i \in 1..Len(found) |-> users[found[i]]]

\* MemoryRepository.GetUsersByIDs: the records of the identifiers that are
\* stored, in the order of the list; the others are left out.
GetUsersByIDs(userIDs) ==
    LET found == SelectSeq(userIDs, LAMBDA id : id \in DOMAIN users)
    IN  [i \in 1..Len(found) |-> users[found[i]]]

\* MemoryRepository.GetUsersByTeam: the user structs of the team.  The slice
\* returned lists them in map iteration order, any of Orders(...); the order is
\* drawn where the slice is consumed.
GetUsersByTeam(teamName) ==
    {users[id] : id \in {x \in DOMAIN users : users[x].TeamName = teamName}}

\* Mutant of GetPullRequestsByReviewer: merged pull requests are passed over.
GetPullRequestsByReviewer_openOnly(userID) ==
    Orders({pullRequests[id] : id \in
               {x \in DOMAIN pullRequests :
                   /\ Contains(Deref(pullRequests[x].AssignedReviewers), userID)
                   /\ pullRequests[x].Status = StatusOpen}})

\* MemoryRepository.GetPullRequestsByReviewer: the stored pull requests whose
\* reviewer array holds userID, each appended once (the inner loop breaks at
\* the first match), in map iteration order: any of the orders.
GetPullRequestsByReviewer(userID) ==
    Orders({pullRequests[id] : id \in
               {x \in DOMAIN pullRequests :
                   Contains(Deref(pullRequests[x].AssignedReviewers), userID)}})

\* ------------------------------------------------ pure use-case functions

\* usecase.min
min(a, b) == IF a < b THEN a ELSE b

\* filterActiveCandidates: the active members other than the author.
filterActiveCandidates(teamMembers, authorID) ==
    SelectSeq(teamMembers, LAMBDA member : member.UserID # authorID /\ member.IsActive)

\* Mutant of selectRandomReviewers: the count is not capped by maxCount.
selectRandomReviewers_uncapped(candidates, maxCount) ==
    IF Len(candidates) = 0
    THEN {<<>>}
    ELSE {[i \in 1..Len(candidates) |-> candidates[sh[i]].UserID] :
             sh \in Orders(1..Len(candidates))}

\* Mutant of selectRandomReviewers: the list is made maxCount long, and the
\* places for which there is no candidate keep the zero identifier.
selectRandomReviewers_zeroFilled(candidates, maxCount) ==
    LET count == min(Len(candidates), maxCount)
    IN  IF count = 0
        THEN {<<>>}
        ELSE {[i \in 1..maxCount |->
                  IF i <= count THEN candidates[sh[i]].UserID ELSE UUIDNil] :
                 sh \in Orders(1..Len(candidates))}

\* selectRandomReviewers: every reviewer list rand.Shuffle can produce, the
\* first min(len, maxCount) identifiers of a shuffle of the candidates.
selectRandomReviewers(candidates, maxCount) ==
    LET count == min(Len(candidates), maxCount)
    IN  IF count = 0
        THEN {<<>>}
        ELSE {[i \in 1..count |-> candidates[sh[i]].UserID] :
                 sh \in Orders(1..Len(candidates))}

\* assignReviewers, given the users GetUsersByTeam returned (in any map
\* order): the reviewer lists it can return.
assignReviewers(teamMembers, author) ==
    UNION {selectRandomReviewers(filterActiveCandidates(tm, author.UserID), 2) :
              tm \in Orders(teamMembers)}

\* Mutant of checkPRNotMerged: the status is not looked at.
checkPRNotMerged_skipped(pr) == ErrNil

\* checkPRNotMerged
checkPRNotMerged(pr) == IF pr.Status = StatusMerged THEN ErrPRMerged ELSE ErrNil

\* checkReviewerAssigned, on the contents of the shared array.
checkReviewerAssigned(reviewers, reviewerID) ==
    IF Contains(reviewers, reviewerID) THEN ErrNil ELSE ErrNotAssigned

\* isAlreadyReviewer
isAlreadyReviewer(userID, reviewers) == Contains(reviewers, userID)

\* Mutant of filterReplacementCandidates: the author is not skipped.
filterReplacementCandidates_keepAuthor(teamMembers, authorID, currentReviewers) ==
    SelectSeq(teamMembers,
              LAMBDA member : /\ member.IsActive
                              /\ ~Contains(currentReviewers, member.UserID))

\* Mutant of filterReplacementCandidates: current reviewers are not skipped.
filterReplacementCandidates_keepReviewers(teamMembers, authorID, currentReviewers) ==
    SelectSeq(teamMembers,
              LAMBDA member : member.IsActive /\ member.UserID # authorID)

\* filterReplacementCandidates: active, not the author, not a current reviewer.
filterReplacementCandidates(teamMembers, authorID, currentReviewers) ==
    SelectSeq(teamMembers,
              LAMBDA member : /\ member.IsActive
                              /\ member.UserID # authorID
                              /\ ~isAlreadyReviewer(member.UserID, currentReviewers))

\* findReplacementReviewer, given the users GetUsersByTeam returned (in any
\* map order): the (user, error) pairs it can return.
findReplacementReviewer(teamMembers, authorID, currentReviewers) ==
    UNION {LET candidates == filterReplacementCandidates(tm, authorID, currentReviewers)
           IN  IF Len(candidates) = 0
               THEN {[user |-> ZeroUser, err |-> ErrNoCandidate]}
               ELSE {[user |-> candidates[k], err |-> ErrNil] : k \in 1..Len(candidates)} :
              tm \in Orders(teamMembers)}

\* Mutant of replaceReviewer: the old reviewer is removed and the new one
\* appended.
replaceReviewer_append(reviewers, oldReviewerID, newReviewerID) ==
    IF Contains(reviewers, oldReviewerID)
    THEN Append(SelectSeq(reviewers, LAMBDA id : id # oldReviewerID), newReviewerID)
    ELSE reviewers

\* replaceReviewer: overwrite the first element equal to oldReviewerID, if any.
replaceReviewer(reviewers, oldReviewerID, newReviewerID) ==
    IF Contains(reviewers, oldReviewerID)
    THEN LET i == CHOOSE k \in 1..Len(reviewers) :
                      /\ reviewers[k] = oldReviewerID
                      /\ \A j \in 1..(k - 1) : reviewers[j] # oldReviewerID
         IN  [reviewers EXCEPT ![i] = newReviewerID]
    ELSE reviewers

\* Mutant of alreadyMerged: the early return is never taken.
alreadyMerged_never(pr) == FALSE

\* MergePR, line 95: the PR read is already merged.
alreadyMerged(pr) == pr.Status = StatusMerged

\* Mutant of markMerged: the merge time is not set.
markMerged_noTimestamp(pr, now) == [pr EXCEPT !.Status = StatusMerged]

\* MergePR, lines 100-102: the local copy marked merged at time now.
markMerged(pr, now) == [pr EXCEPT !.Status = StatusMerged, !.MergedAt = <<now>>]

\* Mutant of updateUserActiveStatus: the copy loses its team name.
updateUserActiveStatus_dropsTeam(user, isActive) ==
    [user EXCEPT !.IsActive = isActive, !.TeamName = ""]

\* updateUserActiveStatus
updateUserActiveStatus(user, isActive) == [user EXCEPT !.IsActive = isActive]

\* Mutant of CreatePullRequest: an existing entry is overwritten.
CreatePullRequest_overwrite(pr) == (pr.PullRequestID :> pr) @@ pullRequests

\* Mutant of CreatePullRequest: a new pull request is not stored.
CreatePullRequest_dropsNew(pr) == pullRequests

\* MemoryRepository.CreatePullRequest / UpdatePullRequest: the map after the call.
CreatePullRequest(pr) ==
    IF pr.PullRequestID \in DOMAIN pullRequests
    THEN pullRequests
    ELSE (pr.PullRequestID :> pr) @@ pullRequests

UpdatePullRequest(pr) ==
    IF pr.PullRequestID \notin DOMAIN pullRequests
    THEN pullRequests
    ELSE [pullRequests EXCEPT ![pr.PullRequestID] = pr]

\* Mutant of UpdateUser: the stored record is kept.
UpdateUser_keepsOld(user) == users

\* MemoryRepository.CreateUser / UpdateUser / CreateTeam: the map after the call.
CreateUser(user) ==
    IF user.UserID \in DOMAIN users THEN users ELSE (user.UserID :> user) @@ users

UpdateUser(user) ==
    IF user.UserID \notin DOMAIN users THEN users ELSE [users EXCEPT ![user.UserID] = user]

\* Mutant of CreateTeam: a stored team is overwritten.
CreateTeam_overwrite(teamName, members) == (teamName :> members) @@ teams

CreateTeam(teamName, members) ==
    IF teamName \in DOMAIN teams THEN teams ELSE (teamName :> members) @@ teams

\* The member lists of the POST /team/add requests that are tried.
MemberInputs ==
    { << TeamMemberDTO("u2", "m", TRUE), TeamMemberDTO("u4", "n", TRUE) >>,
      << TeamMemberDTO("u4", "n", TRUE), TeamMemberDTO("u4", "m", FALSE) >> }

\* ------------------------------------------------------ request plumbing

\* No other goroutine is serving a request.
Alone(p) == \A q \in Procs \ {p} : pc[q] = "idle"

\* The goroutines are interchangeable: a request goes to the first free one.
FirstFree(p) ==
    \A i, j \in 1..Len(Pool) : (Pool[j] = p /\ i < j) => pc[Pool[i]] # "idle"

\* Sending a response touches nothing shared, so it is taken to follow the
\* use case's return at once: no other step is taken while one is pending.
Responded == \A q \in Procs : pc[q] # "done"

\* Goroutine p takes request o and makes its first repository call: the
\* repository is remembered as it is at that moment.
Begin(p, o) ==
    /\ pc[p] = "idle"
    /\ Responded
    /\ FirstFree(p)
    /\ started < MaxOps
    /\ started' = started + 1
    /\ op' = [op EXCEPT ![p] = o]
    /\ pre' = IF Alone(p) THEN Snapshot ELSE NoPre

\* A later step of the request at label.
At(p, label) ==
    /\ pc[p] = label
    /\ Responded
    /\ UNCHANGED <<started, op, pre>>

\* The use case returns r.
Done(p, r) ==
    /\ pc' = [pc EXCEPT ![p] = "done"]
    /\ ret' = [ret EXCEPT ![p] = r]

Goto(p, label) ==
    /\ pc' = [pc EXCEPT ![p] = label]
    /\ ret' = ret

\* The response is sent; the goroutine is free again.
Return(p) ==
    /\ pc[p] = "done"
    /\ pc' = [pc EXCEPT ![p] = "idle"]
    /\ op' = [op EXCEPT ![p] = NoOp]
    /\ loc' = [loc EXCEPT ![p] = NoLoc]
    /\ ret' = [ret EXCEPT ![p] = NoRet]
    /\ pre' = NoPre
    /\ UNCHANGED <<repo, clock, started>>

\* ---------------------------------------------------------------- CreatePR

\* Mutant of CreatePR_checkPRNotExists: the call goes on to getAuthor without
\* looking for the id.
CreatePR_checkPRNotExists_skipped(p) ==
    \E prID \in PRIDs, authorID \in AuthorInputs :
        /\ Begin(p, Op("CreatePR", prID, authorID, FALSE, "", <<>>))
        /\ Goto(p, "CreatePR_getAuthor")
        /\ UNCHANGED <<repo, clock, loc>>

\* checkPRNotExists: PRExists under the read lock.
CreatePR_checkPRNotExists(p) ==
    \E prID \in PRIDs, authorID \in AuthorInputs :
        /\ Begin(p, Op("CreatePR", prID, authorID, FALSE, "", <<>>))
        /\ IF PRExists(prID)
           THEN Done(p, [NoRet EXCEPT !.err = ErrAlreadyExists])
           ELSE Goto(p, "CreatePR_getAuthor")
        /\ UNCHANGED <<repo, clock, loc>>

\* getAuthor: GetUser under the read lock, the user struct copied.
CreatePR_getAuthor(p) ==
    /\ At(p, "CreatePR_getAuthor")
    /\ IF UserExists(op[p].userID)
       THEN /\ Goto(p, "CreatePR_assignReviewers")
            /\ loc' = [loc EXCEPT ![p].user = users[op[p].userID]]
       ELSE /\ Done(p, [NoRet EXCEPT !.err = ErrNotFound])
            /\ loc' = loc
    /\ UNCHANGED <<repo, clock>>

\* assignReviewers (GetUsersByTeam under the read lock, then the filter and
\* the shuffle) and the construction of the PR with time.Now().
CreatePR_assignReviewers(p) ==
    /\ At(p, "CreatePR_assignReviewers")
    /\ \E reviewers \in assignReviewers(GetUsersByTeam(loc[p].user.TeamName), loc[p].user) :
          /\ heap' = (NewRef :> reviewers) @@ heap
          /\ loc' = [loc EXCEPT ![p].pr =
                        PullRequest(op[p].prID, "pr", op[p].userID, StatusOpen,
                                    NewRef, clock + 1, <<>>)]
    /\ clock' = clock + 1
    /\ Goto(p, "CreatePR_CreatePullRequest")
    /\ UNCHANGED <<users, teams, pullRequests>>

\* prRepo.CreatePullRequest under the write lock.
CreatePR_CreatePullRequest(p) ==
    /\ At(p, "CreatePR_CreatePullRequest")
    /\ pullRequests' = CreatePullRequest(loc[p].pr)
    /\ IF PRExists(op[p].prID)
       THEN /\ Done(p, [NoRet EXCEPT !.err = ErrAlreadyExists])
            /\ heap' = Free(loc[p].pr.AssignedReviewers)
       ELSE /\ Done(p, [NoRet EXCEPT !.pr = loc[p].pr])
            /\ heap' = heap
    /\ UNCHANGED <<users, teams, clock, loc>>

\* ----------------------------------------------------------------- MergePR

\* getPR under the read lock; an already merged PR is returned as it is,
\* otherwise the local copy is marked merged with time.Now().
MergePR_getPR(p) ==
    \E prID \in PRIDs :
        /\ Begin(p, Op("MergePR", prID, UUIDNil, FALSE, "", <<>>))
        /\ IF ~PRExists(prID)
           THEN /\ Done(p, [NoRet EXCEPT !.err = ErrNotFound])
                /\ UNCHANGED <<loc, clock>>
           ELSE IF alreadyMerged(pullRequests[prID])
                THEN /\ Done(p, [NoRet EXCEPT !.pr = pullRequests[prID]])
                     /\ UNCHANGED <<loc, clock>>
                ELSE /\ Goto(p, "MergePR_UpdatePullRequest")
                     /\ loc' = [loc EXCEPT ![p].pr = markMerged(pullRequests[prID], clock + 1)]
                     /\ clock' = clock + 1
        /\ UNCHANGED repo

\* prRepo.UpdatePullRequest under the write lock.
MergePR_UpdatePullRequest(p) ==
    /\ At(p, "MergePR_UpdatePullRequest")
    /\ pullRequests' = UpdatePullRequest(loc[p].pr)
    /\ IF PRExists(op[p].prID)
       THEN Done(p, [NoRet EXCEPT !.pr = loc[p].pr])
       ELSE Done(p, [NoRet EXCEPT !.err = ErrNotFound])
    /\ UNCHANGED <<users, teams, heap, clock, loc>>

\* -------------------------------------------------------- ReassignReviewer

\* getPR under the read lock (the struct is copied, the reviewer array is
\* shared), then checkPRNotMerged on the copy.
Reassign_getPR(p) ==
    \E prID \in PRIDs, oldReviewerID \in ReviewerInputs :
        /\ Begin(p, Op("ReassignReviewer", prID, oldReviewerID, FALSE, "", <<>>))
        /\ IF ~PRExists(prID)
           THEN /\ Done(p, [NoRet EXCEPT !.err = ErrNotFound])
                /\ loc' = loc
           ELSE IF checkPRNotMerged(pullRequests[prID]) # ErrNil
                THEN /\ Done(p, [NoRet EXCEPT !.err = checkPRNotMerged(pullRequests[prID])])
                     /\ loc' = loc
                ELSE /\ Goto(p, "Reassign_checkReviewerAssigned")
                     /\ loc' = [loc EXCEPT ![p].pr = pullRequests[prID]]
        /\ UNCHANGED <<repo, clock>>

\* checkReviewerAssigned: a scan of the shared array, outside the lock.
Reassign_checkReviewerAssigned(p) ==
    /\ At(p, "Reassign_checkReviewerAssigned")
    /\ IF checkReviewerAssigned(Deref(loc[p].pr.AssignedReviewers), op[p].userID) = ErrNil
       THEN Goto(p, "Reassign_getUser")
       ELSE Done(p, [NoRet EXCEPT !.err = ErrNotAssigned])
    /\ UNCHANGED <<repo, clock, loc>>

\* getUser(oldReviewerID): GetUser under the read lock.
Reassign_getUser(p) ==
    /\ At(p, "Reassign_getUser")
    /\ IF UserExists(op[p].userID)
       THEN /\ Goto(p, "Reassign_GetUsersByTeam")
            /\ loc' = [loc EXCEPT ![p].user = users[op[p].userID]]
       ELSE /\ Done(p, [NoRet EXCEPT !.err = ErrNotFound])
            /\ loc' = loc
    /\ UNCHANGED <<repo, clock>>

\* findReplacementReviewer, first half: GetUsersByTeam under the read lock.
Reassign_GetUsersByTeam(p) ==
    /\ At(p, "Reassign_GetUsersByTeam")
    /\ loc' = [loc EXCEPT ![p].teamMembers = GetUsersByTeam(loc[p].user.TeamName)]
    /\ Goto(p, "Reassign_selectReplacement")
    /\ UNCHANGED <<repo, clock>>

\* Mutant of Reassign_selectReplacement: the old reviewer is taken out of the
\* shared array before a replacement is looked for.
Reassign_selectReplacement_removesOld(p) ==
    /\ At(p, "Reassign_selectReplacement")
    /\ LET currentReviewers == Deref(loc[p].pr.AssignedReviewers)
       IN  \E r \in findReplacementReviewer(loc[p].teamMembers, loc[p].pr.AuthorID,
                                            currentReviewers) :
              /\ loc' = [loc EXCEPT ![p].newReviewer = r.user,
                                    ![p].seen = currentReviewers,
                                    ![p].teamMembers = {}]
              /\ IF r.err = ErrNil
                 THEN Goto(p, "Reassign_replaceReviewer")
                 ELSE Done(p, [NoRet EXCEPT !.err = r.err])
    /\ heap' = [heap EXCEPT ![loc[p].pr.AssignedReviewers] =
                   SelectSeq(@, LAMBDA x : x # op[p].userID)]
    /\ UNCHANGED <<users, teams, pullRequests, clock>>

\* findReplacementReviewer, second half: filterReplacementCandidates reads the
\* shared array outside the lock, then rand.Intn picks a candidate.  seen
\* records the array contents the filter read.
Reassign_selectReplacement(p) ==
    /\ At(p, "Reassign_selectReplacement")
    /\ LET currentReviewers == Deref(loc[p].pr.AssignedReviewers)
       IN  \E r \in findReplacementReviewer(loc[p].teamMembers, loc[p].pr.AuthorID,
                                            currentReviewers) :
              /\ loc' = [loc EXCEPT ![p].newReviewer = r.user,
                                    ![p].seen = currentReviewers,
                                    ![p].teamMembers = {}]
              /\ IF r.err = ErrNil
                 THEN Goto(p, "Reassign_replaceReviewer")
                 ELSE Done(p, [NoRet EXCEPT !.err = r.err])
    /\ UNCHANGED <<repo, clock>>

\* replaceReviewer: writes into the shared array, outside the lock.
Reassign_replaceReviewer(p) ==
    /\ At(p, "Reassign_replaceReviewer")
    /\ heap' = [heap EXCEPT ![loc[p].pr.AssignedReviewers] =
                   replaceReviewer(@, op[p].userID, loc[p].newReviewer.UserID)]
    /\ Goto(p, "Reassign_UpdatePullRequest")
    /\ UNCHANGED <<users, teams, pullRequests, clock, loc>>

\* prRepo.UpdatePullRequest under the write lock: the local struct is stored.
Reassign_UpdatePullRequest(p) ==
    /\ At(p, "Reassign_UpdatePullRequest")
    /\ pullRequests' = UpdatePullRequest(loc[p].pr)
    /\ IF PRExists(op[p].prID)
       THEN Done(p, [NoRet EXCEPT !.pr = loc[p].pr, !.id = loc[p].newReviewer.UserID])
       ELSE Done(p, [NoRet EXCEPT !.err = ErrNotFound])
    /\ UNCHANGED <<users, teams, heap, clock, loc>>

\* ------------------------------------------------------------- SetIsActive

\* getUser under the read lock, then updateUserActiveStatus on the copy.
SetIsActive_getUser(p) ==
    \E userID \in ActivityInputs, isActive \in BOOLEAN :
        /\ Begin(p, Op("SetIsActive", UUIDNil, userID, isActive, "", <<>>))
        /\ IF UserExists(userID)
           THEN /\ Goto(p, "SetIsActive_saveUser")
                /\ loc' = [loc EXCEPT ![p].user =
                              updateUserActiveStatus(users[userID], isActive)]
           ELSE /\ Done(p, [NoRet EXCEPT !.err = ErrNotFound])
                /\ loc' = loc
        /\ UNCHANGED <<repo, clock>>

\* saveUser: UpdateUser under the write lock.
SetIsActive_saveUser(p) ==
    /\ At(p, "SetIsActive_saveUser")
    /\ users' = UpdateUser(loc[p].user)
    /\ IF UserExists(op[p].userID)
       THEN Done(p, [NoRet EXCEPT !.user = loc[p].user])
       ELSE Done(p, [NoRet EXCEPT !.err = ErrNotFound])
    /\ UNCHANGED <<teams, pullRequests, heap, clock, loc>>

\* ----------------------------------------------------------------- AddTeam

\* Mutant of AddTeam_next: the team record is written before the members.
AddTeam_next_teamFirst(members, i) == "AddTeam_createTeam"

\* The label after member i - 1 has been handled.
AddTeam_next(members, i) ==
    IF i > Len(members) THEN "AddTeam_createTeam" ELSE "AddTeam_UserExists"

\* TeamController.AddTeam decodes the request; checkTeamNotExists: TeamExists
\* under the read lock.
AddTeam_checkTeamNotExists(p) ==
    \E teamName \in TeamNames, dtos \in MemberInputs :
        LET members == [i \in 1..Len(dtos) |-> TeamMemberDTOToEntity(dtos[i], teamName)]
        IN  /\ Begin(p, Op("AddTeam", UUIDNil, UUIDNil, FALSE, teamName, members))
            /\ IF TeamExists(teamName)
               THEN /\ Done(p, [NoRet EXCEPT !.err = ErrAlreadyExists])
                    /\ loc' = loc
               ELSE /\ Goto(p, AddTeam_next(members, 1))
                    /\ loc' = [loc EXCEPT ![p].i = 1]
            /\ UNCHANGED <<repo, clock>>

\* createOrUpdateMembers: UserExists for member i under the read lock.
AddTeam_UserExists(p) ==
    /\ At(p, "AddTeam_UserExists")
    /\ loc' = [loc EXCEPT ![p].exists = UserExists(op[p].members[loc[p].i].UserID)]
    /\ Goto(p, "AddTeam_upsert")
    /\ UNCHANGED <<repo, clock>>

\* Mutant of AddTeam_upsert: the error of the repository call is dropped and
\* the loop goes on.
AddTeam_upsert_ignoresError(p) ==
    /\ At(p, "AddTeam_upsert")
    /\ LET member == op[p].members[loc[p].i]
       IN  /\ users' = IF loc[p].exists THEN UpdateUser(member) ELSE CreateUser(member)
           /\ Goto(p, AddTeam_next(op[p].members, loc[p].i + 1))
           /\ loc' = [loc EXCEPT ![p].i = @ + 1, ![p].exists = FALSE]
    /\ UNCHANGED <<teams, pullRequests, heap, clock>>

\* createOrUpdateMembers: UpdateUser or CreateUser for member i under the
\* write lock, as the earlier UserExists decided.
AddTeam_upsert(p) ==
    /\ At(p, "AddTeam_upsert")
    /\ LET member == op[p].members[loc[p].i]
           err == IF loc[p].exists
                  THEN (IF UserExists(member.UserID) THEN ErrNil ELSE ErrNotFound)
                  ELSE (IF UserExists(member.UserID) THEN ErrAlreadyExists ELSE ErrNil)
       IN  /\ users' = IF loc[p].exists THEN UpdateUser(member) ELSE CreateUser(member)
           /\ IF err = ErrNil
              THEN /\ Goto(p, AddTeam_next(op[p].members, loc[p].i + 1))
                   /\ loc' = [loc EXCEPT ![p].i = @ + 1, ![p].exists = FALSE]
              ELSE /\ Done(p, [NoRet EXCEPT !.err = err])
                   /\ loc' = loc
    /\ UNCHANGED <<teams, pullRequests, heap, clock>>

\* createTeam: CreateTeam under the write lock.
AddTeam_createTeam(p) ==
    /\ At(p, "AddTeam_createTeam")
    /\ teams' = CreateTeam(op[p].teamName,
                           [i \in 1..Len(op[p].members) |-> op[p].members[i].UserID])
    /\ IF TeamExists(op[p].teamName)
       THEN Done(p, [NoRet EXCEPT !.err = ErrAlreadyExists])
       ELSE Done(p, NoRet)
    /\ UNCHANGED <<users, pullRequests, heap, clock, loc>>

\* ----------------------------------------------------------------- GetTeam

\* getTeamByName: GetTeam under the read lock, the team struct copied.
GetTeam_getTeamByName(p) ==
    \E teamName \in TeamNames :
        /\ Begin(p, Op("GetTeam", UUIDNil, UUIDNil, FALSE, teamName, <<>>))
        /\ IF TeamExists(teamName)
           THEN /\ Goto(p, "GetTeam_getTeamMembers")
                /\ loc' = [loc EXCEPT ![p].team = GetTeam(teamName)]
           ELSE /\ Done(p, [NoRet EXCEPT !.err = ErrNotFound])
                /\ loc' = loc
        /\ UNCHANGED <<repo, clock>>

\* getTeamMembers: GetUsersByIDs under the read lock, the user structs copied.
GetTeam_getTeamMembers(p) ==
    /\ At(p, "GetTeam_getTeamMembers")
    /\ Done(p, [NoRet EXCEPT !.team = loc[p].team,
                             !.users = GetUsersByIDs(loc[p].team.Members)])
    /\ UNCHANGED <<repo, clock, loc>>

\* ---------------------------------------------------------- GetUserReviews

\* GetPullRequestsByReviewer under the read lock, then the structs copied.
GetUserReviews(p) ==
    \E userID \in ReviewerInputs :
        /\ Begin(p, Op("GetUserReviews", UUIDNil, userID, FALSE, "", <<>>))
        /\ \E prs \in GetPullRequestsByReviewer(userID) :
              Done(p, [NoRet EXCEPT !.prs = prs])
        /\ UNCHANGED <<repo, clock, loc>>

\* ------------------------------------------------------------ specification

\* Requests served concurrently: the steps of the goroutines interleave.
Next ==
    \E p \in Procs :
        \/ CreatePR_checkPRNotExists(p)
        \/ CreatePR_getAuthor(p)
        \/ CreatePR_assignReviewers(p)
        \/ CreatePR_CreatePullRequest(p)
        \/ MergePR_getPR(p)
        \/ MergePR_UpdatePullRequest(p)
        \/ Reassign_getPR(p)
        \/ Reassign_checkReviewerAssigned(p)
        \/ Reassign_getUser(p)
        \/ Reassign_GetUsersByTeam(p)
        \/ Reassign_selectReplacement(p)
        \/ Reassign_replaceReviewer(p)
        \/ Reassign_UpdatePullRequest(p)
        \/ SetIsActive_getUser(p)
        \/ SetIsActive_saveUser(p)
        \/ AddTeam_checkTeamNotExists(p)
        \/ AddTeam_UserExists(p)
        \/ AddTeam_upsert(p)
        \/ AddTeam_createTeam(p)
        \/ GetTeam_getTeamByName(p)
        \/ GetTeam_getTeamMembers(p)
        \/ GetUserReviews(p)
        \/ Return(p)

Spec == Init /\ [][Next]_vars

\* The scheduler runs every goroutine that serves a request: a request under
\* way takes its next step (each repository call in it returns).
FairSpec ==
    /\ Spec
    /\ \A p \in Procs : WF_vars(Next /\ pc[p] # "idle" /\ pc'[p] # pc[p])

\* The pull request that CreatePR("p0", author u1) stores on the seeded
\* repository when the shuffle puts u2 and u3 first: time.Now() was read once
\* and the reviewer array is the first one allocated.
SeedPR == PullRequest("p0", "pr", "u1", StatusOpen, 1, 1, <<>>)
SeedReviewers == <<"u2", "u3">>

\* A run that starts on the empty repository, or on the seeded one with the
\* seed pull request stored: requests for other pull requests then run next
\* to a stored one that they do not touch.
InitReviews ==
    /\ \E r \in InitialRepos :
          /\ users = r.users
          /\ teams = r.teams
          /\ IF SeedPR.AuthorID \in DOMAIN r.users
             THEN /\ pullRequests = (SeedPR.PullRequestID :> SeedPR)
                  /\ heap = (SeedPR.AssignedReviewers :> SeedReviewers)
                  /\ clock = SeedPR.CreatedAt
             ELSE /\ pullRequests = <<>>
                  /\ heap = <<>>
                  /\ clock = 0
    /\ started = 0
    /\ pc = [p \in Procs |-> "idle"]
    /\ op = [p \in Procs |-> NoOp]
    /\ loc = [p \in Procs |-> NoLoc]
    /\ ret = [p \in Procs |-> NoRet]
    /\ pre = NoPre

ReviewSpec == InitReviews /\ [][Next]_vars

\* Requests served one at a time: a goroutine moves only while every other
\* one is idle.
NextSeq ==
    \E p \in Procs :
        \/ Alone(p) /\ CreatePR_checkPRNotExists(p)
        \/ Alone(p) /\ CreatePR_getAuthor(p)
        \/ Alone(p) /\ CreatePR_assignReviewers(p)
        \/ Alone(p) /\ CreatePR_CreatePullRequest(p)
        \/ Alone(p) /\ MergePR_getPR(p)
        \/ Alone(p) /\ MergePR_UpdatePullRequest(p)
        \/ Alone(p) /\ Reassign_getPR(p)
        \/ Alone(p) /\ Reassign_checkReviewerAssigned(p)
        \/ Alone(p) /\ Reassign_getUser(p)
        \/ Alone(p) /\ Reassign_GetUsersByTeam(p)
        \/ Alone(p) /\ Reassign_selectReplacement(p)
        \/ Alone(p) /\ Reassign_replaceReviewer(p)
        \/ Alone(p) /\ Reassign_UpdatePullRequest(p)
        \/ Alone(p) /\ SetIsActive_getUser(p)
        \/ Alone(p) /\ SetIsActive_saveUser(p)
        \/ Alone(p) /\ AddTeam_checkTeamNotExists(p)
        \/ Alone(p) /\ AddTeam_UserExists(p)
        \/ Alone(p) /\ AddTeam_upsert(p)
        \/ Alone(p) /\ AddTeam_createTeam(p)
        \/ Alone(p) /\ GetTeam_getTeamByName(p)
        \/ Alone(p) /\ GetTeam_getTeamMembers(p)
        \/ Alone(p) /\ GetUserReviews(p)
        \/ Alone(p) /\ Return(p)

SeqSpec == Init /\ [][NextSeq]_vars

\* ------------------------------------------- the repository's critical sections

\* The methods of MemoryRepository.
RepoMethods ==
    {"CreateUser", "UpdateUser", "GetUser", "UserExists", "GetUsersByTeam",
     "GetUsersByIDs", "CreateTeam", "GetTeam", "TeamExists", "CreatePullRequest",
     "GetPullRequest", "UpdatePullRequest", "GetPullRequestsByReviewer", "PRExists"}

\* Mutant of LockKind: UpdatePullRequest takes the lock as a reader.
LockKind_updateShared ==
    [m \in RepoMethods |->
        IF m \in {"CreateUser", "UpdateUser", "CreateTeam", "CreatePullRequest"}
        THEN "Lock" ELSE "RLock"]

\* How each method takes r.mu in its first statement: Lock or RLock (the
\* deferred Unlock / RUnlock releases it when the method returns).
LockKind ==
    [CreateUser |-> "Lock", UpdateUser |-> "Lock", GetUser |-> "RLock",
     UserExists |-> "RLock", GetUsersByTeam |-> "RLock", GetUsersByIDs |-> "RLock",
     CreateTeam |-> "Lock", GetTeam |-> "RLock", TeamExists |-> "RLock",
     CreatePullRequest |-> "Lock", GetPullRequest |-> "RLock",
     UpdatePullRequest |-> "Lock", GetPullRequestsByReviewer |-> "RLock",
     PRExists |-> "RLock"]

\* The methods whose body assigns to one of the three maps.
WritesMap ==
    {"CreateUser", "UpdateUser", "CreateTeam", "CreatePullRequest", "UpdatePullRequest"}

\* The goroutines that are between the Lock / RLock and the deferred unlock
\* of a repository method.
Inside == {p \in Procs : pc[p] \in {"Repo_body", "Repo_unlock"}}

\* sync.RWMutex: Lock returns when nobody holds the mutex, RLock when no
\* writer holds it.
CanLock(kind) ==
    IF kind = "Lock"
    THEN Inside = {}
    ELSE \A q \in Inside : LockKind[op[q].name] = "RLock"

\* Arguments of the repository calls that are tried.
RepoUsers == {User(u, "n", t, TRUE) : u \in ActivityInputs, t \in TeamNames}
RepoTeams == {Team(t, <<"u2">>) : t \in TeamNames}
RepoPRs ==
    {PullRequest("p1", "pr", "u1", StatusOpen, 0, 1, <<>>),
     PullRequest("p1", "pr", "u1", StatusMerged, 0, 1, <<2>>)}

\* A call of a repository method: the method, and its argument in the local
\* variable of its type.
RepoCalls ==
    {[name |-> m, args |-> [NoLoc EXCEPT !.user = u]] :
        m \in {"CreateUser", "UpdateUser", "GetUser", "UserExists"}, u \in RepoUsers}
    \cup {[name |-> m, args |-> [NoLoc EXCEPT !.team = t]] :
        m \in {"CreateTeam", "GetTeam", "TeamExists", "GetUsersByTeam", "GetUsersByIDs"},
        t \in RepoTeams}
    \cup {[name |-> m, args |-> [NoLoc EXCEPT !.pr = pr]] :
        m \in {"CreatePullRequest", "UpdatePullRequest", "GetPullRequest", "PRExists"},
        pr \in RepoPRs}
    \cup {[name |-> "GetPullRequestsByReviewer", args |-> [NoLoc EXCEPT !.user = u]] :
        u \in RepoUsers}

\* What method m called with a returns while it holds the mutex: its error and
\* values, and its bool or its slice of users in the local variables.
RepoOutcome(m, a) ==
    LET r(err) == [ret |-> [NoRet EXCEPT !.err = err], loc |-> a]
    IN  CASE m = "CreateUser" ->
                {r(IF UserExists(a.user.UserID) THEN ErrAlreadyExists ELSE ErrNil)}
          [] m = "UpdateUser" ->
                {r(IF UserExists(a.user.UserID) THEN ErrNil ELSE ErrNotFound)}
          [] m = "GetUser" ->
                IF UserExists(a.user.UserID)
                THEN {[ret |-> [NoRet EXCEPT !.user = users[a.user.UserID]], loc |-> a]}
                ELSE {r(ErrNotFound)}
          [] m = "UserExists" ->
                {[ret |-> NoRet, loc |-> [a EXCEPT !.exists = UserExists(a.user.UserID)]]}
          [] m = "GetUsersByTeam" ->
                {[ret |-> NoRet,
                  loc |-> [a EXCEPT !.teamMembers = GetUsersByTeam(a.team.TeamName)]]}
          [] m = "GetUsersByIDs" ->
                {[ret |-> [NoRet EXCEPT !.users = GetUsersByIDs(a.team.Members)], loc |-> a]}
          [] m = "CreateTeam" ->
                {r(IF TeamExists(a.team.TeamName) THEN ErrAlreadyExists ELSE ErrNil)}
          [] m = "GetTeam" ->
                IF TeamExists(a.team.TeamName)
                THEN {[ret |-> [NoRet EXCEPT !.team = GetTeam(a.team.TeamName)], loc |-> a]}
                ELSE {r(ErrNotFound)}
          [] m = "TeamExists" ->
                {[ret |-> NoRet, loc |-> [a EXCEPT !.exists = TeamExists(a.team.TeamName)]]}
          [] m = "CreatePullRequest" ->
                {r(IF PRExists(a.pr.PullRequestID) THEN ErrAlreadyExists ELSE ErrNil)}
          [] m = "GetPullRequest" ->
                IF PRExists(a.pr.PullRequestID)
                THEN {[ret |-> [NoRet EXCEPT !.pr = pullRequests[a.pr.PullRequestID]],
                       loc |-> a]}
                ELSE {r(ErrNotFound)}
          [] m = "UpdatePullRequest" ->
                {r(IF PRExists(a.pr.PullRequestID) THEN ErrNil ELSE ErrNotFound)}
          [] m = "GetPullRequestsByReviewer" ->
                {[ret |-> [NoRet EXCEPT !.prs = prs], loc |-> a] :
                    prs \in GetPullRequestsByReviewer(a.user.UserID)}
          [] m = "PRExists" ->
                {[ret |-> NoRet, loc |-> [a EXCEPT !.exists = PRExists(a.pr.PullRequestID)]]}

\* Goroutine p calls a repository method.
Repo_Call(p) ==
    /\ pc[p] = "idle"
    /\ started < MaxOps
    /\ \E c \in RepoCalls :
          /\ op' = [op EXCEPT ![p] = Op(c.name, UUIDNil, UUIDNil, FALSE, "", <<>>)]
          /\ loc' = [loc EXCEPT ![p] = c.args]
    /\ started' = started + 1
    /\ pc' = [pc EXCEPT ![p] = "Repo_lock"]
    /\ UNCHANGED <<repo, clock, ret, pre>>

\* r.mu.Lock() / r.mu.RLock(), the first statement of the method: p waits
\* until the mutex admits it.
Repo_Lock(p) ==
    /\ pc[p] = "Repo_lock"
    /\ CanLock(LockKind[op[p].name])
    /\ pc' = [pc EXCEPT ![p] = "Repo_body"]
    /\ UNCHANGED <<repo, clock, started, op, loc, ret, pre>>

\* The body of the method: the map lookups and, in a writing method, the
\* assignment to the map.
Repo_Body(p) ==
    /\ pc[p] = "Repo_body"
    /\ \E o \in RepoOutcome(op[p].name, loc[p]) :
          /\ ret' = [ret EXCEPT ![p] = o.ret]
          /\ loc' = [loc EXCEPT ![p] = o.loc]
    /\ users' = CASE op[p].name = "CreateUser" -> CreateUser(loc[p].user)
                  [] op[p].name = "UpdateUser" -> UpdateUser(loc[p].user)
                  [] OTHER -> users
    /\ teams' = IF op[p].name = "CreateTeam"
                THEN CreateTeam(loc[p].team.TeamName, loc[p].team.Members)
                ELSE teams
    /\ pullRequests' =
          CASE op[p].name = "CreatePullRequest" -> CreatePullRequest(loc[p].pr)
            [] op[p].name = "UpdatePullRequest" -> UpdatePullRequest(loc[p].pr)
            [] OTHER -> pullRequests
    /\ pc' = [pc EXCEPT ![p] = "Repo_unlock"]
    /\ UNCHANGED <<heap, clock, started, op, pre>>

\* Mutant of Repo_Unlock: the unlock is not deferred but placed before the
\* last return only, so that a method returning an error keeps the mutex.
Repo_Unlock_notOnError(p) ==
    /\ pc[p] = "Repo_unlock"
    /\ ret[p].err = ErrNil
    /\ pc' = [pc EXCEPT ![p] = "idle"]
    /\ op' = [op EXCEPT ![p] = NoOp]
    /\ loc' = [loc EXCEPT ![p] = NoLoc]
    /\ ret' = [ret EXCEPT ![p] = NoRet]
    /\ UNCHANGED <<repo, clock, started, pre>>

\* The deferred r.mu.Unlock() / r.mu.RUnlock(): the method returns.
Repo_Unlock(p) ==
    /\ pc[p] = "Repo_unlock"
    /\ pc' = [pc EXCEPT ![p] = "idle"]
    /\ op' = [op EXCEPT ![p] = NoOp]
    /\ loc' = [loc EXCEPT ![p] = NoLoc]
    /\ ret' = [ret EXCEPT ![p] = NoRet]
    /\ UNCHANGED <<repo, clock, started, pre>>

NextRepo ==
    \E p \in Procs :
        \/ Repo_Call(p)
        \/ Repo_Lock(p)
        \/ Repo_Body(p)
        \/ Repo_Unlock(p)

\* Goroutines call the repository's methods directly, on the empty repository
\* or on one that holds a team and a pull request under review.
RepoSpec == InitReviews /\ [][NextRepo]_vars

\* The steps of a call that has been made.
RepoStep(p) == Repo_Lock(p) \/ Repo_Body(p) \/ Repo_Unlock(p)

\* The scheduler runs every goroutine that can run, and sync.RWMutex admits
\* every goroutine that waits in Lock or RLock once the mutex is free often
\* enough (a waiting writer keeps new readers out).
FairRepoSpec ==
    /\ RepoSpec
    /\ \A p \in Procs :
          /\ SF_vars(Repo_Lock(p))
          /\ WF_vars(Repo_Body(p))
          /\ WF_vars(Repo_Unlock(p))

\* ------------------------------------------------------- the HTTP handlers

\* ErrorCode
ErrorCodeTeamExists == "TEAM_EXISTS"
ErrorCodePRExists == "PR_EXISTS"
ErrorCodePRMerged == "PR_MERGED"
ErrorCodeNotAssigned == "NOT_ASSIGNED"
ErrorCodeNoCandidate == "NO_CANDIDATE"
ErrorCodeNotFound == "NOT_FOUND"
ErrorCodeInvalidInput == "INVALID_INPUT"

\* An error that is none of the repository's and use cases' named errors.
ErrUnexpected == "unexpected"

\* What a use case called through its interface can hand to a handler.
UseCaseErrors ==
    {ErrNil, ErrNotFound, ErrAlreadyExists, ErrPRMerged, ErrNotAssigned,
     ErrNoCandidate, ErrUnexpected}

\* The use-case calls the handlers make on a well-formed request; the AddTeam
\* handler calls GetTeam after a successful AddTeam.
HandlerCalls ==
    {"SetIsActive", "GetReview", "CreatePR", "MergePR", "ReassignReviewer",
     "AddTeam", "GetTeam"}

\* sendError / sendJSON: the status line and the error code of the body.
sendError(status, code) == [status |-> status, code |-> code]
sendJSON(status) == [status |-> status, code |-> ""]

\* The response a handler writes when its use-case call at site returns err
\* (errors.Is checks in the order of the code).
Respond(site, err) ==
    LET internal == sendError(500, ErrorCodeInvalidInput)
    IN  CASE site = "SetIsActive" ->
                IF err = ErrNil THEN sendJSON(200)
                ELSE IF err = ErrNotFound THEN sendError(404, ErrorCodeNotFound)
                ELSE internal
          [] site = "GetReview" ->
                IF err = ErrNil THEN sendJSON(200) ELSE internal
          [] site = "CreatePR" ->
                IF err = ErrNil THEN sendJSON(201)
                ELSE IF err = ErrAlreadyExists THEN sendError(409, ErrorCodePRExists)
                ELSE IF err = ErrNotFound THEN sendError(404, ErrorCodeNotFound)
                ELSE internal
          [] site = "MergePR" ->
                IF err = ErrNil THEN sendJSON(200)
                ELSE IF err = ErrNotFound THEN sendError(404, ErrorCodeNotFound)
                ELSE internal
          [] site = "ReassignReviewer" ->
                IF err = ErrNil THEN sendJSON(200)
                ELSE IF err = ErrNotFound THEN sendError(404, ErrorCodeNotFound)
                ELSE IF err = ErrPRMerged THEN sendError(409, ErrorCodePRMerged)
                ELSE IF err = ErrNotAssigned THEN sendError(409, ErrorCodeNotAssigned)
                ELSE IF err = ErrNoCandidate THEN sendError(409, ErrorCodeNoCandidate)
                ELSE internal
          [] site = "AddTeam" ->
                IF err = ErrNil THEN sendJSON(0)   \* nothing written yet: GetTeam follows
                ELSE IF err = ErrAlreadyExists THEN sendError(400, ErrorCodeTeamExists)
                ELSE internal
          [] site = "AddTeam/GetTeam" ->
                IF err = ErrNil THEN sendJSON(201) ELSE internal
          [] site = "GetTeam" ->
                IF err = ErrNil THEN sendJSON(200)
                ELSE IF err = ErrNotFound THEN sendError(404, ErrorCodeNotFound)
                ELSE internal

\* A handler has decoded its request and its use case has returned err.
HTTP_Call(p) ==
    /\ pc[p] = "idle"
    /\ started < MaxOps
    /\ started' = started + 1
    /\ \E site \in HandlerCalls, err \in UseCaseErrors :
          /\ op' = [op EXCEPT ![p] = Op(site, UUIDNil, UUIDNil, FALSE, "", <<>>)]
          /\ ret' = [ret EXCEPT ![p] = [NoRet EXCEPT !.err = err]]
          /\ pc' = [pc EXCEPT ![p] = IF site = "AddTeam" /\ err = ErrNil
                                     THEN "HTTP_AddTeam_GetTeam"
                                     ELSE "HTTP_Send"]
    /\ UNCHANGED <<repo, clock, loc, pre>>

\* TeamController.AddTeam reads the team back with GetTeam.
HTTP_AddTeam_GetTeam(p) ==
    /\ pc[p] = "HTTP_AddTeam_GetTeam"
    /\ \E err \in UseCaseErrors :
          ret' = [ret EXCEPT ![p] = [NoRet EXCEPT !.err = err]]
    /\ op' = [op EXCEPT ![p].name = "AddTeam/GetTeam"]
    /\ pc' = [pc EXCEPT ![p] = "HTTP_Send"]
    /\ UNCHANGED <<repo, clock, started, loc, pre>>

\* The response Respond(op[p].name, ret[p].err) is written and the handler
\* returns.
HTTP_Send(p) ==
    /\ pc[p] = "HTTP_Send"
    /\ pc' = [pc EXCEPT ![p] = "idle"]
    /\ op' = [op EXCEPT ![p] = NoOp]
    /\ ret' = [ret EXCEPT ![p] = NoRet]
    /\ UNCHANGED <<repo, clock, started, loc, pre>>

NextHTTP ==
    \E p \in Procs :
        \/ HTTP_Call(p)
        \/ HTTP_AddTeam_GetTeam(p)
        \/ HTTP_Send(p)

\* The handlers alone: each use case is the interface the controller holds,
\* which may return any error.
HTTPSpec == Init /\ [][NextHTTP]_vars

\* ------------------------------------------------------------------ claims

Range(s) == {s[i] : i \in 1..Len(s)}

\* The reviewer list of the stored pull request id.
Reviewers(id) == Deref(pullRequests[id].AssignedReviewers)

\* Goroutine p has returned from use case name, having run with no other
\* request in service: pre is the repository as the call found it.
Served(p, name) == pc[p] = "done" /\ op[p].name = name /\ pre # NoPre

\* The eligible reviewers of a PR by author in repository state us: the active
\* users other than the author that have the author's team name.
Eligible(us, author) ==
    {u \in DOMAIN us : /\ us[u].IsActive
                       /\ u # author
                       /\ us[u].TeamName = us[author].TeamName}

\* C1: a CreatePR with a fresh id and an existing author, served alone,
\* succeeds and stores a list of min(2, |E|) distinct reviewers taken from E,
\* the active non-author users with the author's team name at the time of the
\* call (none when E is empty).
C1_CreatePRAssignsFromEligible ==
    \A p \in Procs :
        (/\ Served(p, "CreatePR")
         /\ op[p].prID \notin DOMAIN pre.pullRequests
         /\ op[p].userID \in DOMAIN pre.users)
        => /\ ret[p].err = ErrNil
           /\ op[p].prID \in DOMAIN pullRequests
           /\ pullRequests[op[p].prID].AuthorID = op[p].userID
           /\ LET E == Eligible(pre.users, op[p].userID)
                  R == Reviewers(op[p].prID)
              IN  /\ Range(R) \subseteq E
                  /\ Len(R) = min(2, Cardinality(E))
                  /\ Cardinality(Range(R)) = Len(R)

\* C1 witness: a CreatePR served alone found three eligible users and stored two.
C1_Witness ==
    \E p \in Procs :
        /\ Served(p, "CreatePR")
        /\ ret[p].err = ErrNil
        /\ Cardinality(Eligible(pre.users, op[p].userID)) = 3
        /\ Len(Reviewers(op[p].prID)) = 2

\* C1, second case: a CreatePR served alone found no eligible user and stored
\* a PR without reviewers.
C1_WitnessEmpty ==
    \E p \in Procs :
        /\ Served(p, "CreatePR")
        /\ ret[p].err = ErrNil
        /\ op[p].userID \in DOMAIN pre.users
        /\ Eligible(pre.users, op[p].userID) = {}
        /\ op[p].prID \in DOMAIN pullRequests
        /\ Reviewers(op[p].prID) = <<>>

\* C2: no stored PR has its author in its reviewer list.
C2_AuthorNeverReviewer ==
    \A id \in DOMAIN pullRequests :
        ~Contains(Reviewers(id), pullRequests[id].AuthorID)

\* C2 witness: a ReassignReviewer has succeeded on a PR whose author's team
\* name the new reviewer has.
C2_Witness ==
    \E p \in Procs :
        /\ pc[p] = "done"
        /\ op[p].name = "ReassignReviewer"
        /\ ret[p].err = ErrNil
        /\ Contains(Reviewers(op[p].prID), ret[p].id)
        /\ users[pullRequests[op[p].prID].AuthorID].TeamName = loc[p].newReviewer.TeamName

\* C3: the reviewers stored in a PR are pairwise distinct.
C3_ReviewersDistinct ==
    \A id \in DOMAIN pullRequests :
        \A i, j \in 1..Len(Reviewers(id)) :
            Reviewers(id)[i] = Reviewers(id)[j] => i = j

\* C4: once the stored status of a PR is Merged it stays Merged.
C4_MergedStaysMerged ==
    [][\A id \in DOMAIN pullRequests :
          pullRequests[id].Status = StatusMerged
          => (id \in DOMAIN pullRequests' /\ pullRequests'[id].Status = StatusMerged)]_vars

\* C5: no step changes the reviewer list of a PR whose stored status is Merged.
C5_ReviewersFrozenWhenMerged ==
    [][\A id \in DOMAIN pullRequests :
          pullRequests[id].Status = StatusMerged
          => (id \in DOMAIN pullRequests' /\ Reviewers(id)' = Reviewers(id))]_vars

\* C6: for every stored PR the merge timestamp is set exactly when the status
\* is Merged.
C6_MergedAtIffMerged ==
    \A id \in DOMAIN pullRequests :
        (pullRequests[id].MergedAt # <<>>) <=> (pullRequests[id].Status = StatusMerged)

\* C6 witness: a MergePR has succeeded and the PR is stored as Merged with its
\* merge timestamp.
C6_Witness ==
    \E id \in DOMAIN pullRequests :
        /\ pullRequests[id].Status = StatusMerged
        /\ pullRequests[id].MergedAt # <<>>
        /\ \E p \in Procs : pc[p] = "done" /\ op[p].name = "MergePR" /\ ret[p].err = ErrNil

\* C7: a MergePR called on a PR stored as Merged returns at once, with no
\* error and the stored PR (so with the status and the merge timestamp of the
\* merge that was stored), and leaves the stored pull requests and their
\* reviewer lists as they are.
C7_MergeIdempotent ==
    [][\A p \in Procs :
          (/\ pc[p] = "idle"
           /\ pc'[p] # "idle"
           /\ op'[p].name = "MergePR"
           /\ op'[p].prID \in DOMAIN pullRequests
           /\ pullRequests[op'[p].prID].Status = StatusMerged)
          => /\ pc'[p] = "done"
             /\ ret'[p].err = ErrNil
             /\ ret'[p].pr = pullRequests[op'[p].prID]
             /\ ret'[p].pr.Status = StatusMerged
             /\ ret'[p].pr.MergedAt # <<>>
             /\ pullRequests' = pullRequests
             /\ heap' = heap
             /\ users' = users]_vars

\* C7 witness: a MergePR has returned a Merged PR without having marked a
\* copy of it merged (it found the PR merged), after an earlier merge.
C7_Witness ==
    \E p \in Procs :
        /\ pc[p] = "done"
        /\ op[p].name = "MergePR"
        /\ ret[p].err = ErrNil
        /\ ret[p].pr.Status = StatusMerged
        /\ loc[p].pr = ZeroPR
        /\ pullRequests[op[p].prID] = ret[p].pr

\* C8: a successful ReassignReviewer returns a user that was, as the call
\* read it, active, of the team name read for the old reviewer, not the PR's
\* author and not in the reviewer list the call read; and the call itself
\* writes the returned identifier into the stored list, in the place of the
\* old reviewer.
C8_ReplacementEligibleAndWritten ==
    /\ [](\A p \in Procs :
             (pc[p] = "done" /\ op[p].name = "ReassignReviewer" /\ ret[p].err = ErrNil)
             => /\ ret[p].id = loc[p].newReviewer.UserID
                /\ loc[p].newReviewer.IsActive
                /\ loc[p].newReviewer.TeamName = loc[p].user.TeamName
                /\ ret[p].id # ret[p].pr.AuthorID
                /\ ret[p].id # op[p].userID
                /\ ~Contains(loc[p].seen, ret[p].id))
    /\ [][\A p \in Procs :
             (pc[p] = "Reassign_replaceReviewer" /\ pc'[p] = "Reassign_UpdatePullRequest")
             => \E i \in 1..Len(Deref(loc[p].pr.AssignedReviewers)) :
                   /\ Deref(loc[p].pr.AssignedReviewers)[i] = op[p].userID
                   /\ Deref(loc[p].pr.AssignedReviewers)' =
                          [Deref(loc[p].pr.AssignedReviewers) EXCEPT
                              ![i] = loc[p].newReviewer.UserID]]_vars

\* C9: a successful ReassignReviewer served alone replaces in place: the
\* stored list keeps its length, the position of the old reviewer holds the
\* new one, the other positions are unchanged, the old reviewer is gone, and
\* the other fields of the stored PR are unchanged.
C9_ReplaceInPlace ==
    \A p \in Procs :
        (Served(p, "ReassignReviewer") /\ ret[p].err = ErrNil)
        => LET id == op[p].prID
               before == pre.heap[pre.pullRequests[id].AssignedReviewers]
               after == Reviewers(id)
           IN  /\ Len(after) = Len(before)
               /\ \E i \in 1..Len(before) :
                     /\ before[i] = op[p].userID
                     /\ after[i] = ret[p].id
                     /\ \A j \in 1..Len(before) : j # i => after[j] = before[j]
               /\ ~Contains(after, op[p].userID)
               /\ pullRequests[id] = pre.pullRequests[id]
               /\ DOMAIN pullRequests = DOMAIN pre.pullRequests

\* C9 witness: a ReassignReviewer served alone replaced the first of two
\* reviewers.
C9_Witness ==
    \E p \in Procs :
        /\ Served(p, "ReassignReviewer")
        /\ ret[p].err = ErrNil
        /\ Len(Reviewers(op[p].prID)) = 2
        /\ Reviewers(op[p].prID)[1] = ret[p].id

\* The users that can replace old on the PR id in repository state r: users
\* with old's team name that are active, not the author and not reviewers.
Replacements(r, id, old) ==
    {u \in DOMAIN r.users :
        /\ r.users[u].TeamName = r.users[old].TeamName
        /\ r.users[u].IsActive
        /\ u # r.pullRequests[id].AuthorID
        /\ ~Contains(r.heap[r.pullRequests[id].AssignedReviewers], u)}

\* C10: a ReassignReviewer served alone on a stored Open PR for one of its
\* reviewers fails with NoCandidate exactly when no user can replace the old
\* reviewer, and succeeds otherwise.
C10_NoCandidateExactly ==
    \A p \in Procs :
        (/\ Served(p, "ReassignReviewer")
         /\ op[p].prID \in DOMAIN pre.pullRequests
         /\ pre.pullRequests[op[p].prID].Status = StatusOpen
         /\ Contains(pre.heap[pre.pullRequests[op[p].prID].AssignedReviewers], op[p].userID))
        => /\ op[p].userID \in DOMAIN pre.users
           /\ ret[p].err = IF Replacements(pre, op[p].prID, op[p].userID) = {}
                           THEN ErrNoCandidate
                           ELSE ErrNil

\* C10 witness: the PR of author u1 has the reviewers u2 and u3, the old
\* reviewer's team holds exactly u1, u2 and u3, all active, and the
\* ReassignReviewer of u2 has failed with NoCandidate.
C10_Witness ==
    \E p \in Procs :
        /\ Served(p, "ReassignReviewer")
        /\ ret[p].err = ErrNoCandidate
        /\ op[p].userID = "u2"
        /\ pullRequests[op[p].prID].AuthorID = "u1"
        /\ Range(Reviewers(op[p].prID)) = {"u2", "u3"}
        /\ {u \in DOMAIN users : users[u].TeamName = users["u2"].TeamName /\ users[u].IsActive}
               = {"u1", "u2", "u3"}
        /\ {u \in DOMAIN users : users[u].TeamName = users["u2"].TeamName} = {"u1", "u2", "u3"}

\* The error of the first precondition of ReassignReviewer(id, old) that
\* fails in repository state r, in the order of the checks.
FirstFailure(r, id, old) ==
    IF id \notin DOMAIN r.pullRequests THEN ErrNotFound
    ELSE IF r.pullRequests[id].Status = StatusMerged THEN ErrPRMerged
    ELSE IF ~Contains(r.heap[r.pullRequests[id].AssignedReviewers], old) THEN ErrNotAssigned
    ELSE IF old \notin DOMAIN r.users THEN ErrNotFound
    ELSE IF Replacements(r, id, old) = {} THEN ErrNoCandidate
    ELSE ErrNil

\* C11: a ReassignReviewer served alone returns the error of the first check
\* that fails, in the order PR exists (NotFound), PR not Merged (PRMerged),
\* old reviewer assigned (NotAssigned), old reviewer exists (NotFound),
\* candidate available (NoCandidate).
C11_ErrorOrder ==
    \A p \in Procs :
        Served(p, "ReassignReviewer")
        => ret[p].err = FirstFailure(pre, op[p].prID, op[p].userID)

\* C11 witness: a ReassignReviewer on a Merged PR for a user that is not one
\* of its reviewers has returned PRMerged.
C11_Witness ==
    \E p \in Procs :
        /\ Served(p, "ReassignReviewer")
        /\ op[p].prID \in DOMAIN pre.pullRequests
        /\ pre.pullRequests[op[p].prID].Status = StatusMerged
        /\ ~Contains(pre.heap[pre.pullRequests[op[p].prID].AssignedReviewers], op[p].userID)
        /\ ret[p].err = ErrPRMerged

\* The steps of ReassignReviewer that write: replaceReviewer into the shared
\* array and UpdatePullRequest into the repository.
ReassignWrites == {"Reassign_replaceReviewer", "Reassign_UpdatePullRequest"}

\* C12: a ReassignReviewer that returns an error has changed nothing.  Served
\* alone, it leaves users, teams, pull requests and reviewer lists as it found
\* them; under any interleaving, the only steps of a ReassignReviewer that
\* change the repository are its two writing steps, and once a call has
\* reached them it does not return an error.
C12_FailedReassignChangesNothing ==
    /\ [](\A p \in Procs :
             (Served(p, "ReassignReviewer") /\ ret[p].err # ErrNil) => Snapshot = pre)
    /\ [][\A p \in Procs :
             (pc'[p] # pc[p] /\ op'[p].name = "ReassignReviewer")
             => /\ repo' # repo => pc[p] \in ReassignWrites
                /\ pc[p] \in ReassignWrites
                      => ~(pc'[p] = "done" /\ ret'[p].err # ErrNil)]_vars

\* C12 witness: a ReassignReviewer for a reviewer of a stored Open PR has
\* returned NoCandidate.
C12_Witness ==
    \E p \in Procs :
        /\ Served(p, "ReassignReviewer")
        /\ ret[p].err = ErrNoCandidate
        /\ Contains(Reviewers(op[p].prID), op[p].userID)
        /\ pullRequests[op[p].prID].Status = StatusOpen

\* C13: a CreatePR whose id is already stored fails with AlreadyExists, at the
\* check that opens the call or, when the id was stored meanwhile, at the
\* repository's own check; and no step of such a call alters a stored PR
\* (name, author, status, reviewer list, creation and merge time) or stores
\* another one.
C13_DuplicateCreateFails ==
    [][\A p \in Procs :
          (/\ pc'[p] # pc[p]
           /\ op'[p].name = "CreatePR"
           /\ op'[p].prID \in DOMAIN pullRequests)
          => /\ pullRequests' = pullRequests
             /\ \A id \in DOMAIN pullRequests : Reviewers(id)' = Reviewers(id)
             /\ pc[p] \in {"idle", "CreatePR_CreatePullRequest"}
                   => /\ pc'[p] = "done"
                      /\ ret'[p].err = ErrAlreadyExists]_vars

\* C13 witness: a CreatePR for a stored id has returned AlreadyExists.
C13_Witness ==
    \E p \in Procs :
        /\ pc[p] = "done"
        /\ op[p].name = "CreatePR"
        /\ ret[p].err = ErrAlreadyExists
        /\ op[p].prID \in DOMAIN pullRequests

\* C13, second case: the id was stored by another call between the opening
\* check and the repository call, which then refused the PR.
C13_WitnessRace ==
    \E p \in Procs :
        /\ pc[p] = "done"
        /\ op[p].name = "CreatePR"
        /\ ret[p].err = ErrAlreadyExists
        /\ loc[p].pr # ZeroPR
        /\ pullRequests[op[p].prID] # loc[p].pr

\* C14: a CreatePR served alone whose author is not a stored user fails with
\* NotFound when the id is fresh and with AlreadyExists when the id is stored
\* (the id is checked first); either way no PR is stored.
C14_MissingAuthor ==
    \A p \in Procs :
        (Served(p, "CreatePR") /\ op[p].userID \notin DOMAIN pre.users)
        => /\ ret[p].err = IF op[p].prID \in DOMAIN pre.pullRequests
                           THEN ErrAlreadyExists
                           ELSE ErrNotFound
           /\ pullRequests = pre.pullRequests
           /\ heap = pre.heap

\* C14 witness: a CreatePR with a fresh id and an unknown author has returned
\* NotFound and no PR is stored under the id.
C14_Witness ==
    \E p \in Procs :
        /\ Served(p, "CreatePR")
        /\ op[p].userID \notin DOMAIN pre.users
        /\ op[p].prID \notin DOMAIN pre.pullRequests
        /\ ret[p].err = ErrNotFound
        /\ op[p].prID \notin DOMAIN pullRequests

\* C14, second case: the id is stored and the author is unknown; the call has
\* returned AlreadyExists.
C14_WitnessBoth ==
    \E p \in Procs :
        /\ Served(p, "CreatePR")
        /\ op[p].userID \notin DOMAIN pre.users
        /\ op[p].prID \in DOMAIN pre.pullRequests
        /\ ret[p].err = ErrAlreadyExists

\* C15: an AddTeam whose team name is stored when the call starts returns
\* AlreadyExists from its first step, and that step changes no team record
\* and no user record.
C15_AddExistingTeamFails ==
    [][\A p \in Procs :
          (/\ pc[p] = "idle"
           /\ pc'[p] # "idle"
           /\ op'[p].name = "AddTeam"
           /\ op'[p].teamName \in DOMAIN teams)
          => /\ pc'[p] = "done"
             /\ ret'[p].err = ErrAlreadyExists
             /\ teams' = teams
             /\ users' = users]_vars

\* C15 witness: an AddTeam for a stored team name, listing a user whose
\* stored record differs from the supplied one, has returned AlreadyExists
\* before any upsert.
C15_Witness ==
    \E p \in Procs :
        /\ pc[p] = "done"
        /\ op[p].name = "AddTeam"
        /\ ret[p].err = ErrAlreadyExists
        /\ loc[p].i = 0
        /\ op[p].teamName \in DOMAIN teams
        /\ \E i \in 1..Len(op[p].members) :
              /\ op[p].members[i].UserID \in DOMAIN users
              /\ users[op[p].members[i].UserID] # op[p].members[i]

\* The identifiers listed in members.
MemberIDs(members) == {members[i].UserID : i \in 1..Len(members)}

\* The last entry of members for the identifier id.
LastEntry(members, id) ==
    members[CHOOSE i \in 1..Len(members) :
                /\ members[i].UserID = id
                /\ \A j \in (i + 1)..Len(members) : members[j].UserID # id]

\* C16: after a successful AddTeam served alone, every listed identifier is
\* stored with the team name, username and active flag of its last entry in
\* the list, whether it was stored before or not, and the records of the
\* users not listed are as before.
C16_MembersUpserted ==
    \A p \in Procs :
        (Served(p, "AddTeam") /\ ret[p].err = ErrNil)
        => /\ DOMAIN users = DOMAIN pre.users \cup MemberIDs(op[p].members)
           /\ \A id \in MemberIDs(op[p].members) :
                 users[id] = LastEntry(op[p].members, id)
           /\ \A id \in DOMAIN pre.users \ MemberIDs(op[p].members) :
                 users[id] = pre.users[id]

\* C16 witness: a successful AddTeam has overwritten the record of a user
\* that was stored with another team name and has left another user alone.
C16_Witness ==
    \E p \in Procs :
        /\ Served(p, "AddTeam")
        /\ ret[p].err = ErrNil
        /\ \E id \in MemberIDs(op[p].members) \cap DOMAIN pre.users :
              /\ pre.users[id].TeamName # op[p].teamName
              /\ users[id].TeamName = op[p].teamName
        /\ DOMAIN pre.users \ MemberIDs(op[p].members) # {}

\* C16, second case: a successful AddTeam has created a user listed twice,
\* and the record stored is the second entry.
C16_WitnessTwice ==
    \E p \in Procs :
        /\ Served(p, "AddTeam")
        /\ ret[p].err = ErrNil
        /\ \E i, j \in 1..Len(op[p].members) :
              /\ i < j
              /\ op[p].members[i].UserID = op[p].members[j].UserID
              /\ op[p].members[i] # op[p].members[j]
              /\ op[p].members[i].UserID \notin DOMAIN pre.users
              /\ users[op[p].members[j].UserID] = op[p].members[j]

\* C17: every identifier in the member list of a stored team is the
\* identifier of a stored user (the upserts of an AddTeam precede its team
\* record), so a GetTeam that has found the team returns one user record per
\* member identifier, in the order of the list, and leaves none out.
C17_TeamMembersStored ==
    /\ \A t \in DOMAIN teams :
          \A i \in 1..Len(teams[t]) : teams[t][i] \in DOMAIN users
    /\ \A p \in Procs :
          (pc[p] = "done" /\ op[p].name = "GetTeam" /\ ret[p].err = ErrNil)
          => /\ Len(ret[p].users) = Len(ret[p].team.Members)
             /\ \A i \in 1..Len(ret[p].users) :
                   ret[p].users[i].UserID = ret[p].team.Members[i]

\* C17 witness: a GetTeam has returned the members of a team while an AddTeam
\* that lists one of them is between its upserts.
C17_Witness ==
    \E p, q \in Procs :
        /\ pc[p] = "done"
        /\ op[p].name = "GetTeam"
        /\ ret[p].err = ErrNil
        /\ Len(ret[p].users) > 0
        /\ op[q].name = "AddTeam"
        /\ pc[q] \in {"AddTeam_UserExists", "AddTeam_upsert"}
        /\ loc[q].i > 1
        /\ \E i \in 1..Len(ret[p].users) :
              ret[p].users[i].UserID \in MemberIDs(op[q].members)

\* C18: when the upsert of a member fails inside AddTeam (UpdateUser of a
\* user that is not stored, CreateUser of one that is), the call returns that
\* error in the same step, without writing a team record, and the step
\* leaves every user record as it is: what earlier upserts stored stays.
C18_FailedUpsertEndsAddTeam ==
    [][\A p \in Procs :
          (pc[p] = "AddTeam_upsert" /\ pc'[p] # pc[p])
          => LET id == op[p].members[loc[p].i].UserID
             IN  (loc[p].exists # (id \in DOMAIN users))
                 => /\ pc'[p] = "done"
                    /\ ret'[p].err = IF loc[p].exists THEN ErrNotFound
                                                     ELSE ErrAlreadyExists
                    /\ teams' = teams
                    /\ users' = users]_vars

\* C18 witness: an AddTeam has failed at its second member, its team is not
\* stored, and the first member is stored as the call supplied it.
C18_Witness ==
    \E p \in Procs :
        /\ pc[p] = "done"
        /\ op[p].name = "AddTeam"
        /\ ret[p].err = ErrAlreadyExists
        /\ loc[p].i = 2
        /\ loc[p].i <= Len(op[p].members)
        /\ op[p].teamName \notin DOMAIN teams
        /\ op[p].members[1].UserID \in DOMAIN users
        /\ users[op[p].members[1].UserID] = op[p].members[1]

\* No step removes or changes a stored team record.
TeamsKept ==
    \A t \in DOMAIN teams : t \in DOMAIN teams' /\ teams'[t] = teams[t]

\* C19: round trip.  The step of AddTeam that writes the team record stores
\* the identifiers of the supplied members under the supplied name and ends
\* the call without error; the record is kept by every later step; a GetTeam
\* for a stored name does not fail; and what a GetTeam returns is the stored
\* team, with one record per member identifier, each the record stored for
\* that identifier when the users were read.
C19_AddTeamGetTeamRoundTrip ==
    /\ [](\A p \in Procs :
             (pc[p] = "done" /\ op[p].name = "GetTeam" /\ ret[p].err = ErrNil)
             => /\ op[p].teamName \in DOMAIN teams
                /\ ret[p].team = Team(op[p].teamName, teams[op[p].teamName])
                /\ {ret[p].users[i].UserID : i \in 1..Len(ret[p].users)}
                       = Range(teams[op[p].teamName])
                /\ \A i \in 1..Len(ret[p].users) :
                      ret[p].users[i] = users[ret[p].users[i].UserID])
    /\ [][/\ TeamsKept
          /\ \A p \in Procs :
                /\ (/\ pc[p] = "AddTeam_createTeam"
                    /\ pc'[p] # pc[p]
                    /\ op[p].teamName \notin DOMAIN teams)
                   => /\ pc'[p] = "done"
                      /\ ret'[p].err = ErrNil
                      /\ op[p].teamName \in DOMAIN teams'
                      /\ Range(teams'[op[p].teamName]) = MemberIDs(op[p].members)
                /\ (/\ pc'[p] # pc[p]
                    /\ op'[p].name = "GetTeam"
                    /\ op'[p].teamName \in DOMAIN teams)
                   => ~(pc'[p] = "done" /\ ret'[p].err # ErrNil)]_vars

\* C19 witness: after an AddTeam that supplied u2 as active with the username
\* "m" and a SetIsActive(u2, false), a GetTeam has returned the two members of
\* the team, u2 with the username "m" and not active.
C19_Witness ==
    \E p \in Procs :
        /\ pc[p] = "done"
        /\ op[p].name = "GetTeam"
        /\ ret[p].err = ErrNil
        /\ Len(ret[p].users) = 2
        /\ ret[p].users[1].UserID = "u2"
        /\ ret[p].users[1].Username = "m"
        /\ ~ret[p].users[1].IsActive
        /\ ret[p].users[1].TeamName = ret[p].team.TeamName

\* C20: a team record, once stored, is never changed and never removed: in
\* every step every stored team keeps its name and its member list.
C20_TeamRecordImmutable == [][TeamsKept]_vars

\* C20 witness: two teams are stored and a member of one of them has since
\* been listed by the AddTeam of the other, whose name its user record now
\* carries.
C20_Witness ==
    \E t \in DOMAIN teams :
        \E i \in 1..Len(teams[t]) :
            /\ users[teams[t][i]].TeamName # t
            /\ users[teams[t][i]].TeamName \in DOMAIN teams
            /\ Contains(teams[users[teams[t][i]].TeamName], teams[t][i])

\* C21: a SetIsActive(u, b) served alone on a stored user sets the stored
\* active flag of u to b, returns the updated user, and changes nothing else:
\* the username and team name of u, the other users, the teams, the pull
\* requests and their reviewer lists are as before.  On a user that is not
\* stored it returns NotFound and the repository is as before.
C21_SetIsActiveFrame ==
    \A p \in Procs :
        Served(p, "SetIsActive")
        => IF op[p].userID \in DOMAIN pre.users
           THEN /\ ret[p].err = ErrNil
                /\ users = [pre.users EXCEPT ![op[p].userID].IsActive = op[p].isActive]
                /\ ret[p].user = users[op[p].userID]
                /\ teams = pre.teams
                /\ pullRequests = pre.pullRequests
                /\ heap = pre.heap
           ELSE /\ ret[p].err = ErrNotFound
                /\ Snapshot = pre

\* C21 witness: a SetIsActive has deactivated a user that is a reviewer of a
\* stored PR, and the user is still in the reviewer list.
C21_Witness ==
    \E p \in Procs :
        /\ Served(p, "SetIsActive")
        /\ ret[p].err = ErrNil
        /\ pre.users[op[p].userID].IsActive
        /\ ~users[op[p].userID].IsActive
        /\ \E id \in DOMAIN pullRequests : Contains(Reviewers(id), op[p].userID)

\* C21, second case: a SetIsActive for a user that is not stored has returned
\* NotFound and no user has been created.
C21_WitnessNotFound ==
    \E p \in Procs :
        /\ Served(p, "SetIsActive")
        /\ ret[p].err = ErrNotFound
        /\ op[p].userID \notin DOMAIN users

\* The stored pull requests that have the user u in their reviewer list.
ReviewedBy(u) ==
    {pullRequests[id] : id \in {x \in DOMAIN pullRequests : Contains(Reviewers(x), u)}}

\* C22: a GetUserReviews(u) returns no error and a list that holds every
\* stored pull request with u in its reviewer list, Open or Merged, exactly
\* once, and no other pull request; the list is empty for a user that reviews
\* nothing or is not stored.
C22_ReviewsExactlyOnce ==
    \A p \in Procs :
        (pc[p] = "done" /\ op[p].name = "GetUserReviews")
        => /\ ret[p].err = ErrNil
           /\ \A i, j \in 1..Len(ret[p].prs) :
                 ret[p].prs[i].PullRequestID = ret[p].prs[j].PullRequestID => i = j
           /\ Range(ret[p].prs) = ReviewedBy(op[p].userID)

\* C22 witness: a GetUserReviews has returned two pull requests, one Open and
\* one Merged.
C22_Witness ==
    \E p \in Procs :
        /\ pc[p] = "done"
        /\ op[p].name = "GetUserReviews"
        /\ Len(ret[p].prs) = 2
        /\ \E i, j \in 1..2 : /\ ret[p].prs[i].Status = StatusOpen
                               /\ ret[p].prs[j].Status = StatusMerged

\* C22, second case: two pull requests are stored, the user reviews one of
\* them and another user has taken a place in the other; only the first is
\* returned.
C22_WitnessOther ==
    \E p \in Procs :
        /\ pc[p] = "done"
        /\ op[p].name = "GetUserReviews"
        /\ Cardinality(DOMAIN pullRequests) = 2
        /\ Len(ret[p].prs) = 1
        /\ \E q \in Procs \ {p} :
              /\ op[q].name = "ReassignReviewer"
              /\ op[q].userID = op[p].userID
              /\ pc[q] = "Reassign_UpdatePullRequest"
              /\ ret[p].prs[1].PullRequestID # op[q].prID

\* C22, third case: the user is not stored and the list is empty.
C22_WitnessUnknown ==
    \E p \in Procs :
        /\ pc[p] = "done"
        /\ op[p].name = "GetUserReviews"
        /\ op[p].userID \notin DOMAIN users
        /\ ret[p].prs = <<>>
        /\ ret[p].err = ErrNil

\* C23: the repository's maps are guarded by one reader-writer lock: a method
\* that assigns to a map is alone between its lock and its unlock, several
\* reading methods may be there together, the maps change only in the body of
\* a writing method, and what a reading method returns is what the maps hold
\* while it is there (every write that returned before it started included).
C23_ReadersWriterLock ==
    /\ [](\A p \in Inside :
            /\ op[p].name \in WritesMap => Inside = {p}
            /\ (pc[p] = "Repo_unlock" /\ op[p].name \notin WritesMap)
                 => [ret |-> ret[p], loc |-> loc[p]] \in RepoOutcome(op[p].name, loc[p]))
    /\ [][<<users, teams, pullRequests>>' # <<users, teams, pullRequests>>
            => \E p \in Procs : /\ pc[p] = "Repo_body"
                                /\ op[p].name \in WritesMap
                                /\ Inside = {p}]_vars

\* Two reading methods are inside together, one of which has found a pull
\* request of the reviewer.
C23_Witness ==
    \E p, q \in Inside :
        /\ p # q
        /\ op[p].name = "GetPullRequestsByReviewer"
        /\ pc[p] = "Repo_unlock"
        /\ ret[p].prs # <<>>
        /\ op[q].name \notin WritesMap

\* A writing method is inside after another write has changed the maps.
C23_WitnessWriter ==
    \E p \in Inside :
        /\ op[p].name = "UpdatePullRequest"
        /\ pc[p] = "Repo_unlock"
        /\ ret[p].err = ErrNil
        /\ "p1" \in DOMAIN pullRequests

\* C24: the reviewer list of a stored pull request changes only in a step that
\* is a repository UpdatePullRequest call; no other step of ReassignReviewer
\* changes what the repository holds.
C24_StoredPRChangesOnlyByUpdate ==
    [][\A id \in DOMAIN pullRequests :
          (id \in DOMAIN pullRequests' /\ Reviewers(id)' # Reviewers(id))
          => \E p \in Procs :
                /\ pc[p] \in {"MergePR_UpdatePullRequest", "Reassign_UpdatePullRequest"}
                /\ pc'[p] = "done"]_vars

\* C25: the response to an error that is none of NotFound, AlreadyExists,
\* PRMerged, NotAssigned and NoCandidate carries a code that is none of the
\* codes used for those errors and is not the code for invalid input.
C25_InternalErrorHasOwnCode ==
    \A p \in Procs :
        (pc[p] = "HTTP_Send" /\ ret[p].err = ErrUnexpected)
        => Respond(op[p].name, ret[p].err).code \notin
              {ErrorCodeTeamExists, ErrorCodePRExists, ErrorCodePRMerged,
               ErrorCodeNotAssigned, ErrorCodeNoCandidate, ErrorCodeNotFound,
               ErrorCodeInvalidInput}

\* C26: every identifier in the member list of a team record is a stored user
\* whose team name is that team's name.
C26_MembersBelongToTeam ==
    \A T \in DOMAIN teams :
        \A m \in Range(teams[T]) :
            m \in DOMAIN users /\ users[m].TeamName = T

\* C27: the merge timestamp is set once: a MergePR that stores the pull
\* request leaves a stored merge timestamp as it is.
C27_MergedAtSetOnce ==
    [][\A p \in Procs :
          (/\ pc[p] = "MergePR_UpdatePullRequest"
           /\ pc'[p] = "done"
           /\ PRExists(op[p].prID)
           /\ pullRequests[op[p].prID].MergedAt # <<>>)
          => pullRequests'[op[p].prID].MergedAt = pullRequests[op[p].prID].MergedAt]_vars

\* C28: of the CreatePR calls for one id, the first to reach the repository
\* succeeds and stores the PR it built; every later one fails there with
\* AlreadyExists and leaves the stored PRs as they are; a stored id stays
\* stored, so that one call succeeds and no other.
C28_OneCreateWins ==
    [][/\ \A id \in DOMAIN pullRequests : id \in DOMAIN pullRequests'
       /\ \A p \in Procs :
            (pc[p] = "CreatePR_CreatePullRequest" /\ pc'[p] = "done")
            => IF op[p].prID \in DOMAIN pullRequests
               THEN /\ ret'[p].err = ErrAlreadyExists
                    /\ pullRequests' = pullRequests
               ELSE /\ ret'[p].err = ErrNil
                    /\ ret'[p].pr = loc[p].pr
                    /\ op[p].prID \in DOMAIN pullRequests'
                    /\ pullRequests'[op[p].prID] = loc[p].pr
                    /\ \A id \in DOMAIN pullRequests :
                          pullRequests'[id] = pullRequests[id]]_vars

\* C28 witness: two CreatePR calls for the same fresh id have both passed the
\* opening check and built their PR, and neither has written yet.
C28_Witness ==
    \E p, q \in Procs :
        /\ p # q
        /\ pc[p] = "CreatePR_CreatePullRequest"
        /\ pc[q] = "CreatePR_CreatePullRequest"
        /\ op[p].prID = op[q].prID
        /\ op[p].prID \notin DOMAIN pullRequests

\* C28 witness, the outcome: the call of another author stored its PR first
\* and this one has been refused.
C28_WitnessLoser ==
    \E p \in Procs :
        /\ pc[p] = "done"
        /\ op[p].name = "CreatePR"
        /\ ret[p].err = ErrAlreadyExists
        /\ loc[p].pr.PullRequestID = op[p].prID
        /\ pullRequests[op[p].prID].AuthorID # loc[p].pr.AuthorID

\* C29: the write of a SetIsActive changes the active flag only: the stored
\* username and team name of the user, which an AddTeam may have written after
\* the SetIsActive read the user, are left as they are.
C29_SetIsActiveKeepsUpsert ==
    [][\A p \in Procs :
          (/\ pc[p] = "SetIsActive_saveUser"
           /\ pc'[p] = "done"
           /\ UserExists(op[p].userID))
          => /\ users'[op[p].userID].Username = users[op[p].userID].Username
             /\ users'[op[p].userID].TeamName = users[op[p].userID].TeamName]_vars

\* C30: an AddTeam that returns AlreadyExists, which its handler reports as
\* TEAM_EXISTS, returns it for a team name that is stored.
C30_TeamExistsMeansTeamStored ==
    \A p \in Procs :
        (/\ pc[p] = "done"
         /\ op[p].name = "AddTeam"
         /\ ret[p].err = ErrAlreadyExists
         /\ Respond("AddTeam", ret[p].err).code = ErrorCodeTeamExists)
        => op[p].teamName \in DOMAIN teams

\* C31: when a ReassignReviewer(pr, old) returns success, old is not in the
\* stored reviewer list of pr: no concurrent reassignment that was under way
\* has put it back.
C31_OldReviewerGone ==
    \A p \in Procs :
        (/\ pc[p] = "done"
         /\ op[p].name = "ReassignReviewer"
         /\ ret[p].err = ErrNil)
        => ~Contains(Reviewers(op[p].prID), op[p].userID)

\* C32: every identifier in the reviewer list of a stored pull request is the
\* identifier of a stored user; so the getUser of ReassignReviewer finds the
\* old reviewer, and a ReassignReviewer that fails with NotFound has not found
\* the pull request.
C32_ReviewersAreStoredUsers ==
    /\ \A id \in DOMAIN pullRequests : Range(Reviewers(id)) \subseteq DOMAIN users
    /\ \A p \in Procs :
          /\ pc[p] = "Reassign_getUser" => op[p].userID \in DOMAIN users
          /\ (pc[p] = "done" /\ op[p].name = "ReassignReviewer" /\ ret[p].err = ErrNotFound)
             => (loc[p].pr = ZeroPR /\ op[p].prID \notin DOMAIN pullRequests)

\* C32 witness: a ReassignReviewer has passed the NotAssigned check and found
\* the old reviewer with getUser.
C32_Witness ==
    \E p \in Procs :
        /\ pc[p] = "Reassign_GetUsersByTeam"
        /\ loc[p].user = users[op[p].userID]
        /\ Contains(Reviewers(op[p].prID), op[p].userID)

\* C32 witness: a pull request is stored with a reviewer while not every
\* identifier that requests name is a stored user.
C32_WitnessFewUsers ==
    \E id \in DOMAIN pullRequests :
        /\ Reviewers(id) # <<>>
        /\ DOMAIN users # UserIDs

\* C32 witness: a ReassignReviewer has failed with NotFound, for the pull
\* request.
C32_WitnessNotFound ==
    \E p \in Procs :
        /\ pc[p] = "done"
        /\ op[p].name = "ReassignReviewer"
        /\ ret[p].err = ErrNotFound
        /\ users # <<>>

\* C33: every repository call that is made returns: whenever goroutines are in
\* a call one of them can take a step (no deadlock on the mutex), and under
\* fair scheduling each of them gets back to its caller, having released the
\* mutex, on the error paths as on the others.
C33_EveryCallReturns ==
    /\ []((\E p \in Procs : pc[p] # "idle") => (\E p \in Procs : ENABLED RepoStep(p)))
    /\ \A p \in Procs : (pc[p] # "idle") ~> (pc[p] = "idle")

\* C33 witness: a goroutine waits in Lock or RLock while a writing method that
\* is about to return an error holds the mutex.
C33_Witness ==
    \E p, q \in Procs :
        /\ pc[p] = "Repo_lock"
        /\ pc[q] = "Repo_unlock"
        /\ op[q].name \in WritesMap
        /\ ret[q].err # ErrNil

\* C33 witness: a writer waits in Lock while only readers are inside.
C33_WitnessWriterWaits ==
    \E p \in Procs :
        /\ pc[p] = "Repo_lock"
        /\ LockKind[op[p].name] = "Lock"
        /\ Inside # {}
        /\ \A q \in Inside : LockKind[op[q].name] = "RLock"

\* C33, the use cases: given that every repository call returns, every
\* request that is being served gets its response.
C33_OperationsReturn ==
    \A p \in Procs : (pc[p] # "idle") ~> (pc[p] = "idle")
====
